---- MODULE Spec2Model ----
(***************************************************************************)
(* State machine of ConfigureGraphics (yuzu/configuration/                 *)
(* configure_graphics.cpp): the vsync-mode combobox, the enum map that     *)
(* shadows it, and the handlers that rebuild and commit the selection.     *)
(*                                                                         *)
(* Widget identities are the ones the member names say: api_combobox is    *)
(* the API chooser, vulkan_device_combobox the device chooser (the chain   *)
(* in SetConfiguration, lines 233-239, tests vulkan_device's id twice; the *)
(* wiring that the rest of the file relies on is the one modelled).        *)
(* QComboBox is modelled by its documented behaviour: an empty box has     *)
(* index -1, the first item inserted into an empty box becomes current, an *)
(* invalid index given to setCurrentIndex gives -1.  The vsync combobox is *)
(* created empty; the file fills it itself.  The shader-backend widgets    *)
(* feed into nothing that is modelled here and are left out.  The closures *)
(* in apply_funcs are built outside this file and are not modelled.        *)
(*                                                                         *)
(* A read outside a vector is undefined: its outcome is a choice among the *)
(* values the element type has here, and the history variable last notes   *)
(* that it happened.                                                       *)
(***************************************************************************)
EXTENDS Integers, Sequences, FiniteSets, TLC

\* ------------------------------------------------------------------ bounds
\* Largest number of device records handed to the constructor.
MaxDevices == 2

\* ------------------------------------------------------- program constants
VK_PRESENT_MODE_IMMEDIATE_KHR == 0
VK_PRESENT_MODE_MAILBOX_KHR == 1
VK_PRESENT_MODE_FIFO_KHR == 2
VK_PRESENT_MODE_FIFO_RELAXED_KHR == 3
\* A present mode the file has no case for (it reaches the default branches).
VK_PRESENT_MODE_SHARED_DEMAND_REFRESH_KHR == 1000111000

\* ConfigurationShared::USE_GLOBAL_INDEX / USE_GLOBAL_OFFSET
USE_GLOBAL_INDEX == 0
USE_GLOBAL_OFFSET == 2

PresentModes ==
    { VK_PRESENT_MODE_IMMEDIATE_KHR, VK_PRESENT_MODE_MAILBOX_KHR,
      VK_PRESENT_MODE_FIFO_KHR, VK_PRESENT_MODE_FIFO_RELAXED_KHR,
      VK_PRESENT_MODE_SHARED_DEMAND_REFRESH_KHR }

\* Settings::VSyncMode
VSyncModes == { "Immediate", "Mailbox", "FIFO", "FIFORelaxed" }

\* Settings::RendererBackend
RendererBackends == { "OpenGL", "Vulkan", "Null" }

\* "no mode": the value of current_mode when PopulateVSyncModeSelection
\* returned before computing it, and of a selection that does not exist.
NoMode == -1

default_present_modes == << VK_PRESENT_MODE_IMMEDIATE_KHR, VK_PRESENT_MODE_FIFO_KHR >>

\* ------------------------------------------------------------- conversions
VSyncSettingToMode_DropRelaxed(mode) ==
    CASE mode = "Immediate" -> VK_PRESENT_MODE_IMMEDIATE_KHR
      [] mode = "Mailbox" -> VK_PRESENT_MODE_MAILBOX_KHR
      [] mode = "FIFO" -> VK_PRESENT_MODE_FIFO_KHR
      [] OTHER -> VK_PRESENT_MODE_FIFO_KHR

VSyncSettingToMode(mode) ==
    CASE mode = "Immediate" -> VK_PRESENT_MODE_IMMEDIATE_KHR
      [] mode = "Mailbox" -> VK_PRESENT_MODE_MAILBOX_KHR
      [] mode = "FIFO" -> VK_PRESENT_MODE_FIFO_KHR
      [] mode = "FIFORelaxed" -> VK_PRESENT_MODE_FIFO_RELAXED_KHR
      [] OTHER -> VK_PRESENT_MODE_FIFO_KHR

PresentModeToSetting(mode) ==
    CASE mode = VK_PRESENT_MODE_IMMEDIATE_KHR -> "Immediate"
      [] mode = VK_PRESENT_MODE_MAILBOX_KHR -> "Mailbox"
      [] mode = VK_PRESENT_MODE_FIFO_KHR -> "FIFO"
      [] mode = VK_PRESENT_MODE_FIFO_RELAXED_KHR -> "FIFORelaxed"
      [] OTHER -> "FIFO"

\* The display name of a present mode; "" is the empty QString.
TranslateVSyncMode(mode, backend) ==
    CASE mode = VK_PRESENT_MODE_IMMEDIATE_KHR ->
            IF backend = "OpenGL" THEN "Off" ELSE "Immediate (VSync Off)"
      [] mode = VK_PRESENT_MODE_MAILBOX_KHR -> "Mailbox (Recommended)"
      [] mode = VK_PRESENT_MODE_FIFO_KHR ->
            IF backend = "OpenGL" THEN "On" ELSE "FIFO (VSync On)"
      [] mode = VK_PRESENT_MODE_FIFO_RELAXED_KHR -> "FIFO Relaxed"
      [] OTHER -> ""

\* static_cast<Settings::RendererBackend>(index): OpenGL, Vulkan, Null in
\* enumerator order.
RendererBackendOfIndex(i) ==
    CASE i = 0 -> "OpenGL"
      [] i = 1 -> "Vulkan"
      [] OTHER -> "Null"

\* ---------------------------------------------------------------- QComboBox
\* A combobox is [items, currentIndex, enabled].
QComboBox_clear(cb) ==
    [cb EXCEPT !.items = << >>, !.currentIndex = -1]

QComboBox_setCurrentIndex(cb, index) ==
    [cb EXCEPT !.currentIndex =
        IF index >= 0 /\ index < Len(cb.items) THEN index ELSE -1]

QComboBox_insertItem(cb, index, text) ==
    LET n == Len(cb.items)
        at == IF index > n THEN n ELSE IF index < 0 THEN 0 ELSE index
        items == SubSeq(cb.items, 1, at) \o << text >> \o SubSeq(cb.items, at + 1, n)
    IN [cb EXCEPT !.items = items,
                  !.currentIndex =
                      IF cb.currentIndex = -1 /\ n = 0 THEN 0
                      ELSE IF cb.currentIndex # -1 /\ at <= cb.currentIndex
                           THEN cb.currentIndex + 1
                           ELSE cb.currentIndex]

QComboBox_setEnabled(cb, on) ==
    [cb EXCEPT !.enabled = on]

\* -------------------------------------------------------------------- state
VARIABLES
    configuring_global,           \* Settings::IsConfiguringGlobal()
    renderer_backend,             \* Settings::values.renderer_backend: [value, use_global]
    values_vsync_mode,            \* Settings::values.vsync_mode
    values_vulkan_device,         \* Settings::values.vulkan_device: [global, value]
    device_present_modes,         \* one present-mode list per device record
    vulkan_device,                \* the member vulkan_device
    api_combobox,                 \* api_combobox->currentIndex()
    vulkan_device_combobox,       \* vulkan_device_combobox->currentIndex()
    vulkan_device_widget,         \* [enabled, visible]
    vsync_mode_combobox,          \* [items, currentIndex, enabled]
    vsync_mode_combobox_enum_map, \* the mode behind each combobox item
    last,                         \* what the last operation did (history)
    round_trip                    \* progress of a Vulkan -> OpenGL -> Vulkan switch (history)

program_vars ==
    << configuring_global, renderer_backend, values_vsync_mode, values_vulkan_device,
       device_present_modes, vulkan_device, api_combobox, vulkan_device_combobox,
       vulkan_device_widget, vsync_mode_combobox, vsync_mode_combobox_enum_map >>

vars == << program_vars, last, round_trip >>

\* The program state as one record, so that the handlers are functions of it.
Cur ==
    [ configuring_global |-> configuring_global,
      renderer_backend |-> renderer_backend,
      values_vsync_mode |-> values_vsync_mode,
      values_vulkan_device |-> values_vulkan_device,
      device_present_modes |-> device_present_modes,
      vulkan_device |-> vulkan_device,
      api_combobox |-> api_combobox,
      vulkan_device_combobox |-> vulkan_device_combobox,
      vulkan_device_widget |-> vulkan_device_widget,
      vsync_mode_combobox |-> vsync_mode_combobox,
      vsync_mode_combobox_enum_map |-> vsync_mode_combobox_enum_map ]

StateIs(S) ==
    /\ configuring_global = S.configuring_global
    /\ renderer_backend = S.renderer_backend
    /\ values_vsync_mode = S.values_vsync_mode
    /\ values_vulkan_device = S.values_vulkan_device
    /\ device_present_modes = S.device_present_modes
    /\ vulkan_device = S.vulkan_device
    /\ api_combobox = S.api_combobox
    /\ vulkan_device_combobox = S.vulkan_device_combobox
    /\ vulkan_device_widget = S.vulkan_device_widget
    /\ vsync_mode_combobox = S.vsync_mode_combobox
    /\ vsync_mode_combobox_enum_map = S.vsync_mode_combobox_enum_map

NextStateIs(S) ==
    /\ configuring_global' = S.configuring_global
    /\ renderer_backend' = S.renderer_backend
    /\ values_vsync_mode' = S.values_vsync_mode
    /\ values_vulkan_device' = S.values_vulkan_device
    /\ device_present_modes' = S.device_present_modes
    /\ vulkan_device' = S.vulkan_device
    /\ api_combobox' = S.api_combobox
    /\ vulkan_device_combobox' = S.vulkan_device_combobox
    /\ vulkan_device_widget' = S.vulkan_device_widget
    /\ vsync_mode_combobox' = S.vsync_mode_combobox
    /\ vsync_mode_combobox_enum_map' = S.vsync_mode_combobox_enum_map

\* The persisted settings of a state.
SettingsOf(S) ==
    [ renderer_backend |-> S.renderer_backend,
      vsync_mode |-> S.values_vsync_mode,
      vulkan_device |-> S.values_vulkan_device ]

\* The present mode behind the combobox's current item, NoMode if there is none.
SelectedMode(S) ==
    LET i == S.vsync_mode_combobox.currentIndex
    IN IF i >= 0 /\ i < Len(S.vsync_mode_combobox_enum_map)
       THEN S.vsync_mode_combobox_enum_map[i + 1]
       ELSE NoMode

\* ------------------------------------------------ GetCurrentGraphicsBackend
\* The backend the getter returns.
GetCurrentGraphicsBackend(S) ==
    IF S.configuring_global
    THEN RendererBackendOfIndex(S.api_combobox)
    ELSE IF S.api_combobox = USE_GLOBAL_INDEX
         THEN S.renderer_backend.value
         ELSE RendererBackendOfIndex(S.api_combobox - USE_GLOBAL_OFFSET)

\* The state the getter leaves: it calls renderer_backend.SetGlobal when a
\* profile is being configured.
GetCurrentGraphicsBackend_Store(S) ==
    IF S.configuring_global
    THEN S
    ELSE [S EXCEPT !.renderer_backend.use_global = (S.api_combobox = USE_GLOBAL_INDEX)]

\* ---------------------------------------------------------- UpdateAPILayout
UpdateAPILayout_NoGetter(S) ==
    LET use_global == ~S.configuring_global /\ S.api_combobox = USE_GLOBAL_INDEX
        S1 == [S EXCEPT !.vulkan_device =
                            IF use_global THEN S.values_vulkan_device.global
                                          ELSE S.values_vulkan_device.value,
                        !.vulkan_device_widget.enabled = ~use_global]
        backend == GetCurrentGraphicsBackend(S1)
    IN CASE backend = "Vulkan" ->
                [S1 EXCEPT !.vulkan_device_combobox =
                               IF S1.vulkan_device < Len(S1.device_present_modes)
                               THEN S1.vulkan_device ELSE @,
                           !.vulkan_device_widget.visible = TRUE]
         [] OTHER -> [S1 EXCEPT !.vulkan_device_widget.visible = FALSE]

UpdateAPILayout(S) ==
    LET use_global == ~S.configuring_global /\ S.api_combobox = USE_GLOBAL_INDEX
        S1 == [S EXCEPT !.vulkan_device =
                            IF use_global THEN S.values_vulkan_device.global
                                          ELSE S.values_vulkan_device.value,
                        !.vulkan_device_widget.enabled = ~use_global]
        backend == GetCurrentGraphicsBackend(S1)
        S2 == GetCurrentGraphicsBackend_Store(S1)
    IN CASE backend = "OpenGL" ->
                [S2 EXCEPT !.vulkan_device_widget.visible = FALSE]
         [] backend = "Vulkan" ->
                \* the combobox holds one item per device record
                [S2 EXCEPT !.vulkan_device_combobox =
                               IF S2.vulkan_device < Len(S2.device_present_modes)
                               THEN S2.vulkan_device ELSE @,
                           !.vulkan_device_widget.visible = TRUE]
         [] OTHER ->
                [S2 EXCEPT !.vulkan_device_widget.visible = FALSE]

\* ---------------------------------------------------- UpdateDeviceSelection
UpdateDeviceSelection(S, device) ==
    IF device = -1
    THEN S
    ELSE LET backend == GetCurrentGraphicsBackend(S)
             S1 == GetCurrentGraphicsBackend_Store(S)
         IN IF backend = "Vulkan" THEN [S1 EXCEPT !.vulkan_device = device] ELSE S1

\* ----------------------------------------------- PopulateVSyncModeSelection
\* vsync_mode_combobox_enum_map[current_index] is read without a bounds
\* check: outside the vector the read is undefined and may give any mode.
EnumMapInRange(S) ==
    LET i == S.vsync_mode_combobox.currentIndex
    IN i >= 0 /\ i < Len(S.vsync_mode_combobox_enum_map)

EnumMapReadOutcomes(S) ==
    IF EnumMapInRange(S)
    THEN { S.vsync_mode_combobox_enum_map[S.vsync_mode_combobox.currentIndex + 1] }
    ELSE PresentModes

\* The reads PopulateVSyncModeSelection makes of the enum map: none when the
\* current index is -1 (the persisted setting is used instead).
CurrentModeReadOutcomes(S) ==
    IF S.vsync_mode_combobox.currentIndex = -1
    THEN { NoMode }
    ELSE EnumMapReadOutcomes(S)

\* Three device profiles: the usual three modes; a list in another order,
\* without Immediate and Mailbox and with a mode that has no name; a list
\* with no nameable mode.
DeviceProfiles ==
    { << VK_PRESENT_MODE_IMMEDIATE_KHR, VK_PRESENT_MODE_MAILBOX_KHR, VK_PRESENT_MODE_FIFO_KHR >>,
      << VK_PRESENT_MODE_FIFO_RELAXED_KHR, VK_PRESENT_MODE_SHARED_DEMAND_REFRESH_KHR,
         VK_PRESENT_MODE_FIFO_KHR >>,
      << VK_PRESENT_MODE_SHARED_DEMAND_REFRESH_KHR >> }

\* device_present_modes[device] is read without a bounds check as well.
DeviceInRange(S) ==
    /\ S.vulkan_device_combobox >= 0
    /\ S.vulkan_device_combobox < Len(S.device_present_modes)

DeviceReadOutcomes(S) ==
    IF DeviceInRange(S)
    THEN { S.device_present_modes[S.vulkan_device_combobox + 1] }
    ELSE DeviceProfiles \cup { << >> }

\* current_mode (lines 156-160), given what the read of the enum map gave.
CurrentMode(S, enum_map_read) ==
    IF S.vsync_mode_combobox.currentIndex = -1
    THEN VSyncSettingToMode(S.values_vsync_mode)
    ELSE enum_map_read

\* One pass of the loop body; w is [combobox, enum_map, index].
PopulateStep_NoSelect(w, present_mode, backend, current_mode) ==
    LET mode_name == TranslateVSyncMode(present_mode, backend)
    IN IF mode_name = ""
       THEN w
       ELSE [ combobox |-> QComboBox_insertItem(w.combobox, w.index, mode_name),
              enum_map |-> Append(w.enum_map, present_mode),
              index |-> w.index + 1 ]

PopulateStep_SelectAll(w, present_mode, backend, current_mode) ==
    LET mode_name == TranslateVSyncMode(present_mode, backend)
    IN IF mode_name = ""
       THEN w
       ELSE [ combobox |-> QComboBox_setCurrentIndex(
                               QComboBox_insertItem(w.combobox, w.index, mode_name), w.index),
              enum_map |-> Append(w.enum_map, present_mode),
              index |-> w.index + 1 ]

PopulateStep_KeepUnnamed(w, present_mode, backend, current_mode) ==
    LET mode_name == TranslateVSyncMode(present_mode, backend)
        inserted == QComboBox_insertItem(w.combobox, w.index, mode_name)
    IN [ combobox |-> IF present_mode = current_mode
                      THEN QComboBox_setCurrentIndex(inserted, w.index)
                      ELSE inserted,
         enum_map |-> Append(w.enum_map, present_mode),
         index |-> w.index + 1 ]

PopulateStep(w, present_mode, backend, current_mode) ==
    LET mode_name == TranslateVSyncMode(present_mode, backend)
    IN IF mode_name = ""
       THEN w
       ELSE LET inserted == QComboBox_insertItem(w.combobox, w.index, mode_name)
            IN [ combobox |-> IF present_mode = current_mode
                              THEN QComboBox_setCurrentIndex(inserted, w.index)
                              ELSE inserted,
                 enum_map |-> Append(w.enum_map, present_mode),
                 index |-> w.index + 1 ]

RECURSIVE PopulateLoop(_, _, _, _, _)
PopulateLoop(w, present_modes, backend, current_mode, k) ==
    IF k > Len(present_modes)
    THEN w
    ELSE PopulateLoop(PopulateStep(w, present_modes[k], backend, current_mode),
                      present_modes, backend, current_mode, k + 1)

PopulateVSyncModeSelection_ClearFirst(S, enum_map_read, device_read) ==
    LET backend == GetCurrentGraphicsBackend(S)
        S0 == GetCurrentGraphicsBackend_Store(S)
        current_mode == CurrentMode(S0, enum_map_read)
        present_modes == IF backend = "Vulkan" THEN device_read ELSE default_present_modes
        w0 == [ combobox |-> QComboBox_clear(S0.vsync_mode_combobox),
                enum_map |-> << >>,
                index |-> 0 ]
        w == PopulateLoop(w0, present_modes, backend, current_mode, 1)
    IN IF backend = "Null"
       THEN [S0 EXCEPT !.vsync_mode_combobox = QComboBox_setEnabled(w0.combobox, FALSE),
                       !.vsync_mode_combobox_enum_map = << >>]
       ELSE [S0 EXCEPT !.vsync_mode_combobox = QComboBox_setEnabled(w.combobox, TRUE),
                       !.vsync_mode_combobox_enum_map = w.enum_map]

PopulateVSyncModeSelection(S, enum_map_read, device_read) ==
    LET backend == GetCurrentGraphicsBackend(S)
        S0 == GetCurrentGraphicsBackend_Store(S)
    IN IF backend = "Null"
       THEN [S0 EXCEPT !.vsync_mode_combobox = QComboBox_setEnabled(@, FALSE)]
       ELSE LET enabled == QComboBox_setEnabled(S0.vsync_mode_combobox, TRUE)
                current_mode == CurrentMode(S0, enum_map_read)
                present_modes == IF backend = "Vulkan" THEN device_read
                                                       ELSE default_present_modes
                w0 == [ combobox |-> QComboBox_clear(enabled),
                        enum_map |-> << >>,
                        index |-> 0 ]
                w == PopulateLoop(w0, present_modes, backend, current_mode, 1)
            IN [S0 EXCEPT !.vsync_mode_combobox = w.combobox,
                          !.vsync_mode_combobox_enum_map = w.enum_map]

\* What a call of PopulateVSyncModeSelection from state S did, for the history.
PopulateRecord(op, S, enum_map_read) ==
    LET backend == GetCurrentGraphicsBackend(S)
    IN [ op |-> op,
         backend |-> backend,
         current_mode |-> IF backend = "Null" THEN NoMode ELSE CurrentMode(S, enum_map_read),
         oob_device |-> backend = "Vulkan" /\ ~DeviceInRange(S),
         oob_map |-> /\ backend # "Null"
                     /\ S.vsync_mode_combobox.currentIndex # -1
                     /\ ~EnumMapInRange(S),
         settings_at_entry |-> SettingsOf(S) ]

\* ------------------------------------------------------- ApplyConfiguration
ApplyConfiguration_Ungated(S, enum_map_read) ==
    [S EXCEPT !.values_vsync_mode = PresentModeToSetting(enum_map_read)]

ApplyConfiguration(S, enum_map_read) ==
    IF S.configuring_global
    THEN [S EXCEPT !.values_vsync_mode = PresentModeToSetting(enum_map_read)]
    ELSE S

\* -------------------------------------------------------------- constructor
\* The loop of lines 103-109: the position of mode in the enum map, its size
\* when the mode is not there.
RECURSIVE IndexOfMode(_, _, _)
IndexOfMode(enum_map, mode, index) ==
    IF index >= Len(enum_map) \/ enum_map[index + 1] = mode
    THEN index
    ELSE IndexOfMode(enum_map, mode, index + 1)

\* Lines 100-113: the initial selection, made only when configuring globally.
ConstructorSelect(S) ==
    IF S.configuring_global
    THEN LET vsync_mode == VSyncSettingToMode(S.values_vsync_mode)
             index == IndexOfMode(S.vsync_mode_combobox_enum_map, vsync_mode, 0)
         IN IF index < Len(S.vsync_mode_combobox_enum_map)
            THEN [S EXCEPT !.vsync_mode_combobox = QComboBox_setCurrentIndex(@, index)]
            ELSE S
    ELSE S

\* The state when the constructor reaches UpdateAPILayout (line 95): the
\* members are loaded, the device combobox holds one item per record (its
\* first item current), the vsync combobox is still empty.
ConstructorEntry(cg, rb, vsync, vd, records, api) ==
    [ configuring_global |-> cg,
      renderer_backend |-> rb,
      values_vsync_mode |-> vsync,
      values_vulkan_device |-> vd,
      device_present_modes |-> records,
      vulkan_device |-> vd.value,
      api_combobox |-> api,
      vulkan_device_combobox |-> IF Len(records) > 0 THEN 0 ELSE -1,
      vulkan_device_widget |-> [enabled |-> TRUE, visible |-> TRUE],
      vsync_mode_combobox |-> [items |-> << >>, currentIndex |-> -1, enabled |-> TRUE],
      vsync_mode_combobox_enum_map |-> << >> ]

\* The indices the API combobox offers: the backends when configuring
\* globally; "use global" and, after the separator, the backends otherwise.
ApiIndices(cg) ==
    IF cg THEN 0 .. 2
          ELSE { USE_GLOBAL_INDEX } \cup { USE_GLOBAL_OFFSET + b : b \in 0 .. 2 }

\* The device records handed to the constructor.
RecordLists ==
    UNION { [1 .. n -> DeviceProfiles] : n \in 0 .. MaxDevices }

\* The values the persisted device index takes; MaxDevices is past every list.
DeviceSettingValues == 0 .. MaxDevices

NoRoundTrip == [stage |-> 0, offered |-> << >>, mode |-> NoMode]

Init ==
    \E cg \in BOOLEAN, value \in RendererBackends, use_global \in BOOLEAN,
       vsync \in VSyncModes, vdg \in DeviceSettingValues, vdv \in DeviceSettingValues,
       records \in RecordLists :
      \* configuring globally only GetValue() is read and the global flag of
      \* renderer_backend is neither read nor written: one representative
      /\ cg => (use_global /\ vdg = vdv)
      /\ \E api \in ApiIndices(cg) :
           \* the API combobox shows what the settings say
           /\ cg => RendererBackendOfIndex(api) = value
           /\ (~cg) => (use_global <=> api = USE_GLOBAL_INDEX)
           /\ LET S0 == ConstructorEntry(cg, [value |-> value, use_global |-> use_global],
                                         vsync, [global |-> vdg, value |-> vdv], records, api)
                  S1 == UpdateAPILayout(S0)
              IN \E enum_map_read \in CurrentModeReadOutcomes(S1),
                    device_read \in DeviceReadOutcomes(S1) :
                   /\ StateIs(ConstructorSelect(
                                  PopulateVSyncModeSelection(S1, enum_map_read, device_read)))
                   /\ last = PopulateRecord("Constructor", S1, enum_map_read)
      /\ round_trip = NoRoundTrip

\* ----------------------------------------------------------------- handlers
\* api_combobox currentIndexChanged (lines 115-118).
ApiChanged(index) ==
    /\ index \in ApiIndices(configuring_global)
    /\ index # api_combobox
    /\ LET S1 == UpdateAPILayout([Cur EXCEPT !.api_combobox = index])
           before == GetCurrentGraphicsBackend(Cur)
           after == GetCurrentGraphicsBackend(S1)
       IN /\ \E enum_map_read \in CurrentModeReadOutcomes(S1),
                device_read \in DeviceReadOutcomes(S1) :
               /\ NextStateIs(PopulateVSyncModeSelection(S1, enum_map_read, device_read))
               /\ last' = PopulateRecord("ApiChanged", S1, enum_map_read)
          /\ round_trip' =
                IF before = "Vulkan" /\ after = "OpenGL"
                THEN [ stage |-> 1,
                       offered |-> vsync_mode_combobox_enum_map,
                       mode |-> SelectedMode(Cur) ]
                ELSE IF round_trip.stage = 1 /\ after = "Vulkan"
                     THEN [round_trip EXCEPT !.stage = 2]
                     ELSE NoRoundTrip

\* vulkan_device_combobox activated (lines 119-123): the user picks an item
\* of the device combobox, which the widget has to show and enable.
DeviceActivated(device) ==
    /\ vulkan_device_widget.visible
    /\ vulkan_device_widget.enabled
    /\ device \in 0 .. Len(device_present_modes) - 1
    /\ LET S1 == UpdateDeviceSelection([Cur EXCEPT !.vulkan_device_combobox = device], device)
       IN \E enum_map_read \in CurrentModeReadOutcomes(S1),
             device_read \in DeviceReadOutcomes(S1) :
            /\ NextStateIs(PopulateVSyncModeSelection(S1, enum_map_read, device_read))
            /\ last' = PopulateRecord("DeviceActivated", S1, enum_map_read)
    /\ round_trip' = NoRoundTrip

\* ApplyConfiguration (lines 289-300).
Apply ==
    /\ \E enum_map_read \in EnumMapReadOutcomes(Cur) :
         NextStateIs(ApplyConfiguration(Cur, enum_map_read))
    /\ last' = [ op |-> "ApplyConfiguration",
                 backend |-> "none",
                 current_mode |-> NoMode,
                 oob_device |-> FALSE,
                 oob_map |-> configuring_global /\ ~EnumMapInRange(Cur),
                 settings_at_entry |-> SettingsOf(Cur) ]
    /\ round_trip' = NoRoundTrip

Next ==
    \/ \E index \in 0 .. USE_GLOBAL_OFFSET + 2 : ApiChanged(index)
    \/ \E device \in 0 .. MaxDevices - 1 : DeviceActivated(device)
    \/ Apply

Spec == Init /\ [][Next]_vars

\* =================================================================== claims
\* The operations that end in a call of PopulateVSyncModeSelection.
PopulateOps == { "Constructor", "ApiChanged", "DeviceActivated" }

Populated == last.op \in PopulateOps

Offered == vsync_mode_combobox_enum_map

\* The modes of a sequence.
ModesIn(list) == { list[k] : k \in 1 .. Len(list) }

\* ------------------------------------------------------------------- C1
\* C1, as stated: whenever PopulateVSyncModeSelection has run with the Null
\* backend, the enum map and the combobox items are empty and the combobox
\* is disabled.
C1_NullYieldsEmptyList ==
    (Populated /\ last.backend = "Null") =>
        /\ vsync_mode_combobox_enum_map = << >>
        /\ vsync_mode_combobox.items = << >>
        /\ ~vsync_mode_combobox.enabled

\* C1, amended: with the Null backend PopulateVSyncModeSelection disables the
\* combobox and leaves the enum map, the items and the current index as they
\* were; they are empty after a construction with the Null backend.
C1_NullDisablesAndKeepsList ==
    /\ (last.op = "Constructor" /\ last.backend = "Null") =>
            /\ vsync_mode_combobox_enum_map = << >>
            /\ vsync_mode_combobox.items = << >>
            /\ ~vsync_mode_combobox.enabled
    /\ [][ (last'.op \in { "ApiChanged", "DeviceActivated" } /\ last'.backend = "Null") =>
              /\ ~vsync_mode_combobox'.enabled
              /\ vsync_mode_combobox_enum_map' = vsync_mode_combobox_enum_map
              /\ vsync_mode_combobox'.items = vsync_mode_combobox.items
              /\ vsync_mode_combobox'.currentIndex = vsync_mode_combobox.currentIndex ]_vars

\* C1 witness: the API was switched to Null while modes were on offer.
C1_Witness ==
    /\ last.op = "ApiChanged"
    /\ last.backend = "Null"
    /\ vsync_mode_combobox_enum_map # << >>
    /\ ~vsync_mode_combobox.enabled

\* ------------------------------------------------------------------- C2
\* C2: after PopulateVSyncModeSelection with a backend other than Null, if
\* the previously selected mode is on offer, the current index is its
\* position in the offered list.
C2_SelectionContinuity ==
    (Populated /\ last.backend # "Null") =>
        \A k \in 1 .. Len(Offered) :
            Offered[k] = last.current_mode => vsync_mode_combobox.currentIndex = k - 1

\* C2 witness: Mailbox was selected and [Immediate, Mailbox, FIFO] is offered
\* again after a handler ran; the index is 1.
C2_Witness ==
    /\ last.op \in { "ApiChanged", "DeviceActivated" }
    /\ last.current_mode = VK_PRESENT_MODE_MAILBOX_KHR
    /\ Offered = << VK_PRESENT_MODE_IMMEDIATE_KHR, VK_PRESENT_MODE_MAILBOX_KHR,
                    VK_PRESENT_MODE_FIFO_KHR >>
    /\ vsync_mode_combobox.currentIndex = 1

\* ------------------------------------------------------------------- C3
\* C3, as stated: when the previously selected mode is not on offer, the
\* current index is unset (-1) after PopulateVSyncModeSelection.
C3_AbsentModeLeavesUnset ==
    (Populated /\ last.backend # "Null" /\ last.current_mode \notin ModesIn(Offered)) =>
        vsync_mode_combobox.currentIndex = -1

\* C3, amended: when the previously selected mode is not on offer, no entry
\* is selected by the code and the index is the combobox's own default: the
\* first entry (0) when the offered list is not empty, unset (-1) when it is.
C3_AbsentModeFallsToDefault ==
    (Populated /\ last.backend # "Null" /\ last.current_mode \notin ModesIn(Offered)) =>
        vsync_mode_combobox.currentIndex = IF Offered = << >> THEN -1 ELSE 0

\* C3 witness: Mailbox was selected, the new list has entries but not Mailbox.
C3_Witness ==
    /\ Populated
    /\ last.backend # "Null"
    /\ last.current_mode = VK_PRESENT_MODE_MAILBOX_KHR
    /\ Len(Offered) >= 2
    /\ VK_PRESENT_MODE_MAILBOX_KHR \notin ModesIn(Offered)
    /\ vsync_mode_combobox.currentIndex = 0

\* ------------------------------------------------------------------- C4
\* C4: after switching from Vulkan to OpenGL and back to Vulkan (with a
\* device list that is not empty), the offered list and the selected mode
\* are those from before the switch.
C4_RoundTripReproduces ==
    (round_trip.stage = 2 /\ Len(device_present_modes) > 0) =>
        /\ Offered = round_trip.offered
        /\ SelectedMode(Cur) = round_trip.mode

\* ------------------------------------------------------------------- C5
\* C5: a call of PopulateVSyncModeSelection leaves the persisted settings
\* (renderer_backend's value and global flag, vsync_mode, vulkan_device) as
\* they were when it was entered, configuring globally or a profile.
C5_PopulateKeepsSettings ==
    Populated => SettingsOf(Cur) = last.settings_at_entry

\* C5 witness: configuring a profile, the API was switched to its own Vulkan
\* entry, so the getter ran with the override flag in play.
C5_Witness ==
    /\ last.op = "ApiChanged"
    /\ ~configuring_global
    /\ last.backend = "Vulkan"
    /\ ~renderer_backend.use_global
    /\ SettingsOf(Cur) = last.settings_at_entry

\* ------------------------------------------------------------------- C6
\* C6: ApplyConfiguration writes PresentModeToSetting of the selected mode to
\* vsync_mode when configuring globally, and leaves vsync_mode as it was when
\* configuring a profile.
C6_CommitIsModeGated ==
    last.op = "ApplyConfiguration" =>
        IF configuring_global
        THEN EnumMapInRange(Cur) =>
                values_vsync_mode = PresentModeToSetting(SelectedMode(Cur))
        ELSE values_vsync_mode = last.settings_at_entry.vsync_mode

\* C6 witness: a global commit that changed the persisted vsync_mode.
C6_Witness ==
    /\ last.op = "ApplyConfiguration"
    /\ configuring_global
    /\ EnumMapInRange(Cur)
    /\ values_vsync_mode # last.settings_at_entry.vsync_mode
    /\ values_vsync_mode = PresentModeToSetting(SelectedMode(Cur))

\* ------------------------------------------------------------------- C7
\* C7: PopulateVSyncModeSelection never reads device_present_modes outside
\* its bounds.
C7_DeviceReadInBounds ==
    ~last.oob_device

\* ------------------------------------------------------------------- C8
\* C8: PresentModeToSetting(VSyncSettingToMode(s)) = s for each of the four
\* VSyncMode values, the persisted one among them.
C8_SettingRoundTrip ==
    \A s \in VSyncModes \cup { values_vsync_mode } :
        PresentModeToSetting(VSyncSettingToMode(s)) = s

\* C8 witness: FIFORelaxed went through VSyncSettingToMode at construction,
\* was selected, and came back through PresentModeToSetting at the commit.
C8_Witness ==
    /\ last.op = "ApplyConfiguration"
    /\ configuring_global
    /\ last.settings_at_entry.vsync_mode = "FIFORelaxed"
    /\ SelectedMode(Cur) = VK_PRESENT_MODE_FIFO_RELAXED_KHR
    /\ values_vsync_mode = "FIFORelaxed"

\* ------------------------------------------------------------------- C9
\* The source list of the current backend.
SourceList ==
    IF last.backend = "Vulkan"
    THEN device_present_modes[vulkan_device_combobox + 1]
    ELSE << VK_PRESENT_MODE_IMMEDIATE_KHR, VK_PRESENT_MODE_FIFO_KHR >>

\* The modes that have a name: the four the file has cases for.
Nameable(mode) ==
    mode \in { VK_PRESENT_MODE_IMMEDIATE_KHR, VK_PRESENT_MODE_MAILBOX_KHR,
               VK_PRESENT_MODE_FIFO_KHR, VK_PRESENT_MODE_FIFO_RELAXED_KHR }

\* C9: with a backend other than Null (and, under Vulkan, a device selected),
\* the offered list is the source list in source order without the modes
\* that have no name, and every combobox item is the non-empty name of the
\* mode behind it.
C9_OfferedIsFilteredSource ==
    (Populated /\ last.backend # "Null" /\ (last.backend = "Vulkan" => DeviceInRange(Cur))) =>
        /\ Offered = SelectSeq(SourceList, Nameable)
        /\ Len(vsync_mode_combobox.items) = Len(Offered)
        /\ \A k \in 1 .. Len(Offered) :
              /\ vsync_mode_combobox.items[k] # ""
              /\ vsync_mode_combobox.items[k] = TranslateVSyncMode(Offered[k], last.backend)

\* C9 witness: a Vulkan device reporting [FIFO Relaxed, <unnamed>, FIFO]
\* yields [FIFO Relaxed, FIFO].
C9_Witness ==
    /\ Populated
    /\ last.backend = "Vulkan"
    /\ DeviceInRange(Cur)
    /\ SourceList = << VK_PRESENT_MODE_FIFO_RELAXED_KHR,
                       VK_PRESENT_MODE_SHARED_DEMAND_REFRESH_KHR, VK_PRESENT_MODE_FIFO_KHR >>
    /\ Offered = << VK_PRESENT_MODE_FIFO_RELAXED_KHR, VK_PRESENT_MODE_FIFO_KHR >>
    /\ vsync_mode_combobox.items = << "FIFO Relaxed", "FIFO (VSync On)" >>

\* ------------------------------------------------------------------ C10
\* C10: every read of vsync_mode_combobox_enum_map by the combobox's current
\* index, in PopulateVSyncModeSelection and in ApplyConfiguration, is within
\* the map.
C10_EnumMapReadInBounds ==
    ~last.oob_map

====
